---------------------------- MODULE Spec2Model ----------------------------
(***************************************************************************)
(* Model of backend/app.py: a Flask service with three handlers            *)
(* (health_check, get_products, create_product) over one PostgreSQL table  *)
(* "products".  Each request runs in its own thread; the handlers'         *)
(* database calls are the points at which requests interleave.             *)
(*                                                                         *)
(* JSON values are written as strings; None stands for a key that is       *)
(* absent from the body (dict.get returns None), "" for the empty string   *)
(* and "0" for the number 0: the three values Python's all() treats as     *)
(* false here.                                                             *)
(***************************************************************************)
EXTENDS Integers, Sequences, FiniteSets, TLC

NumRequests == 3

Requests == 1..NumRequests

None == "None"

Falsy == {None, "", "0"}

Truthy(v) == v \notin Falsy

\* get_json() of the body "null": data is None, not a dict
NullBody == [json |-> "null"]

MkBody(n, d, m, b) ==
  [json |-> "object", name |-> n, description |-> d,
   manufacturer_id |-> m, batch_number |-> b]

DarkBody == MkBody("Dark 85%", "Single origin", "3", "B-2024-01")

ValidBodies == {DarkBody}

InvalidBodies ==
  { MkBody("", "Single origin", "3", "B-2024-01"),
    MkBody("Dark 85%", None, "3", "B-2024-01"),
    MkBody("Dark 85%", "Single origin", "0", "B-2024-01"),
    MkBody("Dark 85%", "Single origin", "3", None) }

Bodies == ValidBodies \cup InvalidBodies \cup {NullBody}

NoBody == [json |-> "none"]

VARIABLES
  dbUp,          \* psycopg2.connect succeeds / the server executes statements
  table,         \* committed rows of products, in insertion order
  nextId,        \* next value of the product_id sequence
  txn,           \* txn[r]: the uncommitted row of request r's transaction
  kind,          \* kind[r]: which handler serves request r
  pc,            \* pc[r]: position of request r in its handler
  body,          \* body[r]: request.get_json() of a create request
  conn,          \* conn[r]: "none" (None / never opened), "open", "closed"
  product_id,    \* product_id[r]: local of create_product
  products,      \* products[r]: cursor.fetchall() of get_products
  resp,          \* resp[r]: the response returned, [status, payload]
  tableAtSelect, \* history: the table when request r's SELECT ran
  acked,         \* history: [product_id, body] of the creates answered 201
  ackedAtStart   \* history: acked when list request r started

vars == <<dbUp, table, nextId, txn, kind, pc, body, conn, product_id,
          products, resp, tableAtSelect, acked, ackedAtStart>>

dbVars == <<dbUp, table, nextId, txn>>

NoResp == [status |-> 0, payload |-> [none |-> TRUE]]

Response(status, payload) == [status |-> status, payload |-> payload]

ErrorResp(status, msg) == Response(status, [error |-> msg])

Range(s) == {s[i] : i \in DOMAIN s}

\* all orders in which the server may return the rows of an unordered SELECT
Orderings(s) ==
  { [i \in DOMAIN s |-> s[p[i]]] :
      p \in {q \in [DOMAIN s -> DOMAIN s] : Range(q) = DOMAIN s} }

Init ==
  /\ dbUp \in BOOLEAN
  /\ table = <<>>
  /\ nextId = 1
  /\ txn = [r \in Requests |-> <<>>]
  /\ kind = [r \in Requests |-> "none"]
  /\ pc = [r \in Requests |-> "idle"]
  /\ body = [r \in Requests |-> NoBody]
  /\ conn = [r \in Requests |-> "none"]
  /\ product_id = [r \in Requests |-> 0]
  /\ products = [r \in Requests |-> <<>>]
  /\ resp = [r \in Requests |-> NoResp]
  /\ tableAtSelect = [r \in Requests |-> <<>>]
  /\ acked = {}
  /\ ackedAtStart = [r \in Requests |-> {}]

\* requests are numbered in order of arrival
Arrives(r) == pc[r] = "idle" /\ \A q \in Requests : q < r => pc[q] # "idle"

get_db_connection == IF dbUp THEN "open" ELSE "none"

\* the database becomes unreachable, or reachable again
DbToggle ==
  /\ dbUp' = ~dbUp
  /\ UNCHANGED <<table, nextId, txn, kind, pc, body, conn, product_id,
                 products, resp, tableAtSelect, acked, ackedAtStart>>

--------------------------------------------------------------------------
\* GET /api/health

\* a health check that probes the database
health_check_probing(r) ==
  /\ Arrives(r)
  /\ kind' = [kind EXCEPT ![r] = "health"]
  /\ conn' = [conn EXCEPT ![r] = IF dbUp THEN "open" ELSE "none"]
  /\ resp' = [resp EXCEPT ![r] =
        IF dbUp THEN Response(200, [status |-> "OK"])
                ELSE Response(500, [error |-> "Failed to connect to database"])]
  /\ pc' = [pc EXCEPT ![r] = "done"]
  /\ UNCHANGED <<dbVars, body, product_id, products,
                 tableAtSelect, acked, ackedAtStart>>

health_check(r) ==
  /\ Arrives(r)
  /\ kind' = [kind EXCEPT ![r] = "health"]
  /\ resp' = [resp EXCEPT ![r] = Response(200, [status |-> "OK"])]
  /\ pc' = [pc EXCEPT ![r] = "done"]
  /\ UNCHANGED <<dbVars, body, conn, product_id, products,
                 tableAtSelect, acked, ackedAtStart>>

--------------------------------------------------------------------------
\* GET /api/products

\* the check "if not conn" left out
ConnFailedNever(c) == FALSE

ConnFailed(c) == c = "none"

ListConnect(r) ==
  /\ Arrives(r)
  /\ kind' = [kind EXCEPT ![r] = "list"]
  /\ ackedAtStart' = [ackedAtStart EXCEPT ![r] = acked]
  /\ LET c == get_db_connection IN
       /\ conn' = [conn EXCEPT ![r] = c]
       /\ IF ConnFailed(c)
            THEN /\ resp' = [resp EXCEPT ![r] =
                       ErrorResp(500, "Failed to connect to database")]
                 /\ pc' = [pc EXCEPT ![r] = "done"]
            ELSE /\ pc' = [pc EXCEPT ![r] = "select"]
                 /\ UNCHANGED resp
  /\ UNCHANGED <<dbVars, body, product_id, products, tableAtSelect, acked>>

\* a finally block that does not close the connection
ReleaseNothing(c) == c

\* finally: cursor.close(); conn.close()
Release(c) == IF c = "open" THEN "closed" ELSE c

ListSelect(r) ==
  /\ pc[r] = "select"
  /\ kind[r] = "list"
  /\ \/ /\ dbUp
        /\ conn[r] = "open"
        /\ \E fetched \in Orderings(table) :
             products' = [products EXCEPT ![r] = fetched]
        /\ tableAtSelect' = [tableAtSelect EXCEPT ![r] = table]
        /\ pc' = [pc EXCEPT ![r] = "build"]
        /\ UNCHANGED <<conn, resp>>
     \/ /\ resp' = [resp EXCEPT ![r] =
              ErrorResp(500, "Error fetching products")]
        /\ conn' = [conn EXCEPT ![r] = Release(conn[r])]
        /\ pc' = [pc EXCEPT ![r] = "done"]
        /\ UNCHANGED <<products, tableAtSelect>>
  /\ UNCHANGED <<dbVars, kind, body, product_id, acked, ackedAtStart>>

\* the positional mapping with name and description exchanged
ToRecordSwapped(product) ==
  [product_id |-> product[1], name |-> product[3], description |-> product[2],
   manufacturer_id |-> product[4], batch_number |-> product[5]]

ToRecord(product) ==
  [product_id |-> product[1], name |-> product[2], description |-> product[3],
   manufacturer_id |-> product[4], batch_number |-> product[5]]

ProductsList(fetched) == [i \in DOMAIN fetched |-> ToRecord(fetched[i])]

ListBuild(r) ==
  /\ pc[r] = "build"
  /\ resp' = [resp EXCEPT ![r] =
        Response(200, [products |-> ProductsList(products[r])])]
  /\ conn' = [conn EXCEPT ![r] = Release(conn[r])]
  /\ pc' = [pc EXCEPT ![r] = "done"]
  /\ UNCHANGED <<dbVars, kind, body, product_id, products,
                 tableAtSelect, acked, ackedAtStart>>

--------------------------------------------------------------------------
\* POST /api/products

\* the presence check without batch_number
AllPresentButBatch(b) ==
  /\ Truthy(b.name)
  /\ Truthy(b.description)
  /\ Truthy(b.manufacturer_id)

\* all([name, description, manufacturer_id, batch_number])
AllPresent(b) ==
  /\ Truthy(b.name)
  /\ Truthy(b.description)
  /\ Truthy(b.manufacturer_id)
  /\ Truthy(b.batch_number)

\* lines 67-78: acquire the connection, then read and check the body.  The
\* check touches nothing another request can see, so it is taken in the same
\* step as the acquisition that precedes it.
CreateConnect(r) ==
  /\ Arrives(r)
  /\ kind' = [kind EXCEPT ![r] = "create"]
  /\ \E b \in Bodies :
       LET c == get_db_connection IN
         /\ body' = [body EXCEPT ![r] = b]
         /\ conn' = [conn EXCEPT ![r] = c]
         /\ IF ConnFailed(c)
              THEN /\ resp' = [resp EXCEPT ![r] =
                         ErrorResp(500, "Failed to connect to database")]
                   /\ pc' = [pc EXCEPT ![r] = "done"]
            ELSE IF b = NullBody
              THEN \* data.get on None raises AttributeError before the try
                   \* block: Flask answers 500, nothing closes the connection
                   /\ resp' = [resp EXCEPT ![r] =
                         Response(500, [html |-> "Internal Server Error"])]
                   /\ pc' = [pc EXCEPT ![r] = "done"]
            ELSE IF ~AllPresent(b)
              THEN \* return before the try block: no finally clause runs
                   /\ resp' = [resp EXCEPT ![r] =
                         ErrorResp(400, "Missing required fields")]
                   /\ pc' = [pc EXCEPT ![r] = "done"]
            ELSE /\ pc' = [pc EXCEPT ![r] = "insert"]
                 /\ UNCHANGED resp
  /\ UNCHANGED <<dbVars, product_id, products, tableAtSelect, acked,
                 ackedAtStart>>

\* INSERT INTO products (name, description, manufacturer_id, batch_number)
InsertedRow(id, b) ==
  <<id, b.name, b.description, b.manufacturer_id, b.batch_number>>

\* the except block without conn.rollback()
CreateFailsNoRollback(r) ==
  /\ txn' = txn
  /\ resp' = [resp EXCEPT ![r] = ErrorResp(500, "Error creating product")]
  /\ conn' = [conn EXCEPT ![r] = IF conn[r] = "open" THEN "closed" ELSE conn[r]]
  /\ pc' = [pc EXCEPT ![r] = "done"]

\* except: conn.rollback(); 500; finally: close
CreateFails(r) ==
  /\ txn' = [txn EXCEPT ![r] = <<>>]
  /\ resp' = [resp EXCEPT ![r] = ErrorResp(500, "Error creating product")]
  /\ conn' = [conn EXCEPT ![r] = Release(conn[r])]
  /\ pc' = [pc EXCEPT ![r] = "done"]

\* cursor.execute(INSERT ... RETURNING product_id)
CreateInsert(r) ==
  /\ pc[r] = "insert"
  /\ \/ /\ dbUp
        /\ conn[r] = "open"
        /\ txn' = [txn EXCEPT ![r] = InsertedRow(nextId, body[r])]
        /\ nextId' = nextId + 1
        /\ pc' = [pc EXCEPT ![r] = "fetchone"]
        /\ UNCHANGED <<resp, conn>>
     \/ \* the statement fails
        /\ CreateFails(r)
        /\ UNCHANGED nextId
  /\ UNCHANGED <<dbUp, table, kind, body, product_id, products,
                 tableAtSelect, acked, ackedAtStart>>

\* product_id = cursor.fetchone()[0]
CreateFetchone(r) ==
  /\ pc[r] = "fetchone"
  /\ \/ /\ product_id' = [product_id EXCEPT ![r] = txn[r][1]]
        /\ pc' = [pc EXCEPT ![r] = "commit"]
        /\ UNCHANGED <<txn, resp, conn>>
     \/ /\ CreateFails(r)
        /\ UNCHANGED product_id
  /\ UNCHANGED <<dbUp, table, nextId, kind, body, products, tableAtSelect,
                 acked, ackedAtStart>>

\* a commit that does not make the row durable
CommitLost(t, row) == t

Commit(t, row) == Append(t, row)

CreateCommit(r) ==
  /\ pc[r] = "commit"
  /\ \/ /\ dbUp
        /\ table' = Commit(table, txn[r])
        /\ txn' = [txn EXCEPT ![r] = <<>>]
        /\ pc' = [pc EXCEPT ![r] = "respond"]
        /\ UNCHANGED <<resp, conn>>
     \/ /\ CreateFails(r)
        /\ UNCHANGED table
  /\ UNCHANGED <<dbUp, nextId, kind, body, product_id, products,
                 tableAtSelect, acked, ackedAtStart>>

CreateRespond(r) ==
  /\ pc[r] = "respond"
  /\ resp' = [resp EXCEPT ![r] =
        Response(201, [message |-> "Product created successfully",
                       product_id |-> product_id[r]])]
  /\ conn' = [conn EXCEPT ![r] = Release(conn[r])]
  /\ pc' = [pc EXCEPT ![r] = "done"]
  /\ acked' = acked \cup {[product_id |-> product_id[r], body |-> body[r]]}
  /\ UNCHANGED <<dbVars, kind, body, product_id, products, tableAtSelect,
                 ackedAtStart>>

--------------------------------------------------------------------------
ListStep(r) == ListConnect(r) \/ ListSelect(r) \/ ListBuild(r)

Next ==
  \/ DbToggle
  \/ \E r \in Requests : health_check(r)
  \/ \E r \in Requests : ListConnect(r)
  \/ \E r \in Requests : ListSelect(r)
  \/ \E r \in Requests : ListBuild(r)
  \/ \E r \in Requests : CreateConnect(r)
  \/ \E r \in Requests : CreateInsert(r)
  \/ \E r \in Requests : CreateFetchone(r)
  \/ \E r \in Requests : CreateCommit(r)
  \/ \E r \in Requests : CreateRespond(r)

Spec == Init /\ [][Next]_vars

\* the steps of request r after its arrival
Handler(r) ==
  \/ ListSelect(r)
  \/ ListBuild(r)
  \/ CreateInsert(r)
  \/ CreateFetchone(r)
  \/ CreateCommit(r)
  \/ CreateRespond(r)

--------------------------------------------------------------------------
(* Properties *)

Done(r, k) == kind[r] = k /\ pc[r] = "done"

Answered(r, k, status) == Done(r, k) /\ resp[r].status = status

HasError(r) == "error" \in DOMAIN resp[r].payload

\* the request that has just returned its response in this step
Returns(r, k) == pc[r] # "done" /\ pc'[r] = "done" /\ kind'[r] = k

\* the record a list request must show for a submitted body stored under id
Submitted(id, b) ==
  [product_id |-> id, name |-> b.name, description |-> b.description,
   manufacturer_id |-> b.manufacturer_id, batch_number |-> b.batch_number]

Shown(r) == Range(resp[r].payload.products)

\* the row the table must hold for a submitted body stored under id
StoredRow(id, b) ==
  <<id, b.name, b.description, b.manufacturer_id, b.batch_number>>

\* C1: every create request with a missing or falsy required field is
\* answered 400 "Missing required fields" and leaves the products table
\* unchanged, whether the database is reachable or not.
C1_MissingFieldsAlways400 ==
  [][\A r \in Requests :
       (Returns(r, "create") /\ body'[r] \in InvalidBodies)
         => /\ resp'[r] = ErrorResp(400, "Missing required fields")
            /\ table' = table]_vars

\* C2: a create request that has returned its response holds no open
\* connection, whatever its outcome.
C2_CreateReleasesConnection ==
  \A r \in Requests : Done(r, "create") => conn[r] # "open"

\* C3: a create request answered 400 has opened no connection (validation
\* comes before connection acquisition), so it executed no SQL statement.
C3_NoConnectionOn400 ==
  \A r \in Requests : Answered(r, "create", 400) => conn[r] = "none"

\* C4 (as claimed): every valid create request that acquired a connection to
\* a reachable database is answered 201 with a positive product_id.
C4_ValidCreateAlways201 ==
  \A r \in Requests :
    (Done(r, "create") /\ body[r] \in ValidBodies /\ conn[r] # "none")
      => /\ resp[r].status = 201
         /\ resp[r].payload.product_id > 0

UniqueIds ==
  \A i, j \in DOMAIN table : table[i][1] = table[j][1] => i = j

\* C4 (amended): a create request answered 201 was valid, its product_id is
\* a positive integer that no other row or 201 response carries, its row with
\* exactly the submitted fields was committed before the response, and every
\* list request that starts after that response and is answered 200 shows a
\* record with that id and the submitted fields, other requests interleaved
\* or not.
C4_CreatedIsListed ==
  /\ UniqueIds
  /\ \A r \in Requests :
       pc[r] = "respond" =>
         \E i \in DOMAIN table : table[i] = StoredRow(product_id[r], body[r])
  /\ \A r \in Requests :
       Answered(r, "create", 201) =>
         /\ body[r] \in ValidBodies
         /\ resp[r].payload.product_id = product_id[r]
         /\ product_id[r] \in Nat \ {0}
         /\ [product_id |-> product_id[r], body |-> body[r]] \in acked
         /\ \E i \in DOMAIN table : table[i] = StoredRow(product_id[r], body[r])
         /\ \A q \in Requests \ {r} :
              Answered(q, "create", 201) => product_id[q] # product_id[r]
  /\ \A l \in Requests :
       Answered(l, "list", 200) =>
         \A a \in ackedAtStart[l] : Submitted(a.product_id, a.body) \in Shown(l)

\* a list request that started after a 201 response, with another create
\* request interleaved, has answered 200
C4_Witness ==
  \E l \in Requests :
    /\ Answered(l, "list", 200)
    /\ ackedAtStart[l] # {}
    /\ \E q \in Requests : q > l /\ kind[q] = "create"

C5_UnreachableInv ==
  \A r \in Requests :
    (kind[r] \in {"list", "create"} /\ conn[r] = "none")
      => /\ pc[r] = "done"
         /\ resp[r] = ErrorResp(500, "Failed to connect to database")
         /\ HasError(r)
         /\ products[r] = <<>>
         /\ txn[r] = <<>>
         /\ product_id[r] = 0

\* whatever the earlier requests met, a request that has arrived can take
\* its next step and the next request can arrive at any of the endpoints
C5_KeepsServing ==
  /\ \A r \in Requests : pc[r] \notin {"idle", "done"} => ENABLED Handler(r)
  /\ \A r \in Requests :
       Arrives(r) =>
         /\ ENABLED health_check(r)
         /\ ENABLED ListConnect(r)
         /\ ENABLED CreateConnect(r)

\* C5: when get_db_connection returns None, a list or create request is
\* answered 500 with an error field at once, without reaching any SQL
\* statement; and the service keeps serving: no request is left without a
\* next step and later requests are accepted at every endpoint.
C5_UnreachableIs500 == C5_UnreachableInv /\ C5_KeepsServing

\* after a list and a create request failed on an unreachable database, a
\* later request succeeded
C5_Witness ==
  /\ \E r \in Requests :
       Answered(r, "create", 500) /\ conn[r] = "none"
  /\ \E r \in Requests :
       /\ Answered(r, "list", 500) /\ conn[r] = "none"
       /\ \E q \in Requests : q > r /\ Answered(q, "create", 201)

C7_ListReleasesConnection ==
  \A r \in Requests : Done(r, "list") => conn[r] # "open"

\* a list request answered 200 and one answered 500 after a query error,
\* both with their connection closed
C7_Witness ==
  \E r, q \in Requests :
    /\ Answered(r, "list", 200) /\ conn[r] = "closed"
    /\ Answered(q, "list", 500) /\ conn[q] = "closed"

SameRows(s, t) ==
  /\ Len(s) = Len(t)
  /\ \A x \in Range(s) \cup Range(t) :
       Cardinality({i \in DOMAIN s : s[i] = x}) =
       Cardinality({i \in DOMAIN t : t[i] = x})

C8_ListInv ==
  \A r \in Requests :
    Answered(r, "list", 200) =>
      LET shown == resp[r].payload.products IN
        /\ Len(shown) = Len(tableAtSelect[r])
        /\ SameRows(products[r], tableAtSelect[r])
        /\ \A i \in DOMAIN shown :
             shown[i] = [product_id |-> products[r][i][1],
                         name |-> products[r][i][2],
                         description |-> products[r][i][3],
                         manufacturer_id |-> products[r][i][4],
                         batch_number |-> products[r][i][5]]

\* C8: a list request answered 200 returns exactly one record per row the
\* table held when the select ran, in the order the rows were fetched, each
\* built from columns 0..4 as product_id, name, description,
\* manufacturer_id, batch_number; and no step of a list request changes the
\* table.
C8_ListReturnsAllRows ==
  /\ []C8_ListInv
  /\ [][\A r \in Requests : ListStep(r) => table' = table]_vars

\* a list request answered 200 with a row, after which the table has grown
C8_Witness ==
  \E r \in Requests :
    /\ Answered(r, "list", 200)
    /\ Len(resp[r].payload.products) >= 1
    /\ Len(table) > Len(tableAtSelect[r])

IsPrefix(s, t) == Len(s) <= Len(t) /\ \A i \in DOMAIN s : s[i] = t[i]

C9_RowsPopulated ==
  \A i \in DOMAIN table :
    /\ table[i][1] > 0
    /\ \A c \in 2..5 : table[i][c] \notin {None, "", "0"}

\* C9: every row of the products table has name, description,
\* manufacturer_id and batch_number populated with truthy values, and every
\* step only adds rows: the rows present stay as they are, ids included.
C9_PopulatedAndAppendOnly ==
  /\ []C9_RowsPopulated
  /\ [][IsPrefix(table, table')]_vars

\* two rows were created and a request with a falsy field was turned down
C9_Witness ==
  /\ Len(table) >= 2
  /\ \E r \in Requests : Answered(r, "create", 400)

C10_HealthInv ==
  \A r \in Requests :
    kind[r] = "health" =>
      /\ pc[r] = "done"
      /\ resp[r] = Response(200, [status |-> "OK"])
      /\ conn[r] = "none"

\* C10: the health endpoint answers 200 {"status": "OK"} whether the
\* database is reachable or not, opens no connection and changes neither the
\* products table nor any other request.
C10_HealthAlwaysOK ==
  /\ []C10_HealthInv
  /\ [][\A r \in Requests :
          Returns(r, "health") =>
            /\ UNCHANGED <<dbVars, conn, acked>>
            /\ \A q \in Requests \ {r} : pc'[q] = pc[q] /\ resp'[q] = resp[q]]_vars

\* a health check answered while the database was unreachable and the table
\* held a row
C10_Witness ==
  \E r \in Requests :
    /\ Done(r, "health")
    /\ ~dbUp
    /\ Len(table) >= 1
    /\ \A q \in Requests : q > r => pc[q] = "idle"
=============================================================================
